---- MODULE Spec2Model ----
(***************************************************************************)
(* core/jni/android_os_seccomp.cpp: construction of the dual-architecture  *)
(* seccomp filter (gate, 64-bit block, back-patched jump, 32-bit block)    *)
(* and its installation through prctl, with the fail-closed entry point    *)
(* Seccomp_setPolicy.                                                      *)
(*                                                                         *)
(* The filter `f` is a std::vector<sock_filter>; indices are the source's  *)
(* 0-based indices throughout (see Size, At, PushBack below).              *)
(***************************************************************************)
EXTENDS Integers, Sequences, FiniteSets, TLC

VARIABLES
    gated,                  \* #if defined __arm__ || defined __aarch64__
    arm64_filter,           \* seccomp_policy.h: arm64_filter[0..arm64_filter_size)
    arm_filter,             \* seccomp_policy.h: arm_filter[0..arm_filter_size)
    f,                      \* set_seccomp_filter: filter f
    offset_to_32bit_filter, \* set_seccomp_filter: the patch point
    pc,                     \* position in Seccomp_setPolicy / set_seccomp_filter
    ret,                    \* value returned by set_seccomp_filter (bool)
    prog,                   \* install_filter: the sock_fprog given to prctl
    installed,              \* the kernel holds a filter for this process
    proc,                   \* "running" | "returned" | "exited"
    install_calls,          \* number of prctl(PR_SET_SECCOMP) calls made
    resolve_calls,          \* number of writes to f[offset_to_32bit_filter]
    resolve_rc,             \* int returned by SetValidateArchitectureJumpTarget
    size_at_resolve         \* f.size() when SetValidateArchitectureJumpTarget ran

vars == <<gated, arm64_filter, arm_filter, f, offset_to_32bit_filter, pc, ret,
          prog, installed, proc, install_calls, resolve_calls, resolve_rc,
          size_at_resolve>>

-----------------------------------------------------------------------------
(* Bounds of the model.                                                    *)

\* longest padding of the 64-bit policy block; chosen so that the block
\* lengths straddle the 8-bit limit of the gate's jump (253 is the first
\* arm64_filter_size whose jump does not fit)
MaxPad64 == 252
\* longest padding of the 32-bit policy block
MaxPad32 == 1
\* longest decision part of a policy block
MaxBody == 2
\* largest syscall number evaluated
MaxNr == 7
\* longest padding of the 32-bit block in the wide specification; chosen so
\* that f.size() straddles the 16-bit width of sock_fprog.len
MaxPadWide == 65529

-----------------------------------------------------------------------------
(* linux/filter.h, linux/seccomp.h, linux/audit.h as used by the source.   *)

BPF_LD_W_ABS == "BPF_LD|BPF_W|BPF_ABS"
BPF_JMP_JEQ_K == "BPF_JMP|BPF_JEQ|BPF_K"
BPF_JMP_JGE_K == "BPF_JMP|BPF_JGE|BPF_K"
BPF_RET_K == "BPF_RET|BPF_K"

SECCOMP_RET_KILL == 0
SECCOMP_RET_TRAP == 196608
SECCOMP_RET_ERRNO == 327680
SECCOMP_RET_TRACE == 2146435072
SECCOMP_RET_ALLOW == 2147418112

\* The audit tags are 0xC00000B7 and 0x40000028; the first is beyond TLC's
\* 32-bit integers, so both are kept by their low 16 bits (the ELF machine
\* number), which is what tells them apart.
AUDIT_ARCH_AARCH64 == 183
AUDIT_ARCH_ARM == 40

\* offsetof(struct seccomp_data, nr) and offsetof(struct seccomp_data, arch)
syscall_nr == 0
arch_nr == 4

\* widths of __u8 (sock_filter.jt, .jf) and unsigned short (sock_fprog.len)
U8 == 256
U16 == 65536

BPF_STMT(code, k) == [code |-> code, jt |-> 0, jf |-> 0, k |-> k]
BPF_JUMP(code, k, jt, jf) == [code |-> code, jt |-> jt, jf |-> jf, k |-> k]

-----------------------------------------------------------------------------
(* typedef std::vector<sock_filter> filter.                                *)
(* A vector is kept run-length encoded: a sequence of runs [ins, n], each  *)
(* standing for n >= 1 consecutive copies of the instruction ins, with no  *)
(* two neighbouring runs of the same instruction. Every vector has exactly *)
(* one such encoding, so equal vectors are equal values. The operators     *)
(* below are the vector's own: size(), operator[], push_back.              *)

\* f.size()
RECURSIVE Size(_)
Size(v) == IF v = <<>> THEN 0 ELSE Head(v).n + Size(Tail(v))

\* f[i], 0-based, for i < f.size()
RECURSIVE At(_, _)
At(v, i) == IF i < Head(v).n THEN Head(v).ins ELSE At(Tail(v), i - Head(v).n)

\* n times f.push_back(ins)
PushRun(v, ins, n) ==
    IF n = 0 THEN v
    ELSE IF v # <<>> /\ v[Len(v)].ins = ins
         THEN [v EXCEPT ![Len(v)].n = @ + n]
         ELSE Append(v, [ins |-> ins, n |-> n])

\* f.push_back(ins)
PushBack(v, ins) == PushRun(v, ins, 1)

\* for (i = 0; i < w.size(); ++i) f.push_back(w[i]);
RECURSIVE PushAll(_, _)
PushAll(v, w) ==
    IF w = <<>> THEN v
    ELSE PushAll(PushRun(v, Head(w).ins, Head(w).n), Tail(w))

\* the first k elements of v
RECURSIVE Prefix(_, _)
Prefix(v, k) ==
    IF k <= 0 \/ v = <<>> THEN <<>>
    ELSE IF Head(v).n <= k
         THEN <<Head(v)>> \o Prefix(Tail(v), k - Head(v).n)
         ELSE << [ins |-> Head(v).ins, n |-> k] >>

\* the elements of v from index k on
RECURSIVE Suffix(_, _)
Suffix(v, k) ==
    IF v = <<>> THEN <<>>
    ELSE IF k <= 0 THEN v
    ELSE IF Head(v).n <= k
         THEN Suffix(Tail(v), k - Head(v).n)
         ELSE << [ins |-> Head(v).ins, n |-> Head(v).n - k] >> \o Tail(v)

\* f[i] = ins, for i < f.size()
Set(v, i, ins) == PushAll(PushBack(Prefix(v, i), ins), Suffix(v, i + 1))

\* the instructions that occur in v
Instructions(v) == { v[r].ins : r \in 1..Len(v) }

\* the vector holding the elements of the sequence q
RECURSIVE FromSeq(_)
FromSeq(q) ==
    IF q = <<>> THEN <<>>
    ELSE PushAll(<< [ins |-> Head(q), n |-> 1] >>, FromSeq(Tail(q)))

-----------------------------------------------------------------------------
(* The emitters.                                                           *)

Kill(s) == PushBack(s, BPF_STMT(BPF_RET_K, SECCOMP_RET_KILL))

\* Trap returning Allow, and Trap emitting nothing
TrapAsAllow(s) == PushBack(s, BPF_STMT(BPF_RET_K, SECCOMP_RET_ALLOW))
TrapOmitted(s) == s
Trap(s) == PushBack(s, BPF_STMT(BPF_RET_K, SECCOMP_RET_TRAP))

Error(s, retcode) == PushBack(s, BPF_STMT(BPF_RET_K, SECCOMP_RET_ERRNO + retcode))

Trace(s) == PushBack(s, BPF_STMT(BPF_RET_K, SECCOMP_RET_TRACE))

Allow(s) == PushBack(s, BPF_STMT(BPF_RET_K, SECCOMP_RET_ALLOW))

ExamineSyscall(s) == PushBack(s, BPF_STMT(BPF_LD_W_ABS, syscall_nr))

\* (__u8) jump_length
CastU8(x) == x % U8

\* size_t jump_length = f.size() - offset - 1 (f.size() > offset at the only
\* call site, so the unsigned subtraction does not wrap)
JumpLength(offset, s) == Size(s) - offset - 1

\* the patcher with the range check left out: stores the truncated distance
SetJumpTargetTruncating(offset, s) ==
    [rc |-> 0,
     f  |-> Set(s, offset, BPF_JUMP(BPF_JMP_JEQ_K, AUDIT_ARCH_ARM,
                                    CastU8(JumpLength(offset, s)), 0))]
\* the patcher with the distance counted from the branch itself
SetJumpTargetOffByOne(offset, s) ==
    IF CastU8(JumpLength(offset, s)) # JumpLength(offset, s)
    THEN [rc |-> -1, f |-> s]
    ELSE [rc |-> 0,
          f  |-> Set(s, offset, BPF_JUMP(BPF_JMP_JEQ_K, AUDIT_ARCH_ARM,
                                         CastU8(Size(s) - offset), 0))]
\* the patcher whose branch skips the Trap when the tag does not match
SetJumpTargetSkippingTrap(offset, s) ==
    IF CastU8(JumpLength(offset, s)) # JumpLength(offset, s)
    THEN [rc |-> -1, f |-> s]
    ELSE [rc |-> 0,
          f  |-> Set(s, offset, BPF_JUMP(BPF_JMP_JEQ_K, AUDIT_ARCH_ARM,
                                         CastU8(JumpLength(offset, s)), 1))]
\* the patcher reporting success without storing the distance
SetJumpTargetNotStored(offset, s) ==
    IF CastU8(JumpLength(offset, s)) # JumpLength(offset, s)
    THEN [rc |-> -1, f |-> s]
    ELSE [rc |-> 0, f |-> s]
\* the patcher taking the jump field for a signed byte
SetJumpTargetSignedLimit(offset, s) ==
    IF JumpLength(offset, s) >= U8 \div 2
    THEN [rc |-> -1, f |-> s]
    ELSE [rc |-> 0,
          f  |-> Set(s, offset, BPF_JUMP(BPF_JMP_JEQ_K, AUDIT_ARCH_ARM,
                                         JumpLength(offset, s), 0))]
\* the patcher storing the truncated distance before checking it
SetJumpTargetStoringBeforeCheck(offset, s) ==
    LET stored == Set(s, offset, BPF_JUMP(BPF_JMP_JEQ_K, AUDIT_ARCH_ARM,
                                          CastU8(JumpLength(offset, s)), 0))
    IN  IF CastU8(JumpLength(offset, s)) # JumpLength(offset, s)
        THEN [rc |-> -1, f |-> stored]
        ELSE [rc |-> 0, f |-> stored]
\* returns [rc, f]: the int result and the filter after the call
SetValidateArchitectureJumpTarget(offset, s) ==
    LET jump_length == JumpLength(offset, s)
        u8_jump_length == CastU8(jump_length)
    IN  IF u8_jump_length # jump_length
        THEN [rc |-> -1, f |-> s]
        ELSE [rc |-> 0,
              f  |-> Set(s, offset, BPF_JUMP(BPF_JMP_JEQ_K, AUDIT_ARCH_ARM,
                                             u8_jump_length, 0))]

\* the gate whose 32-bit branch skips the Trap when the tag does not match
GateFallingPastTrap(s) ==
    LET s1 == PushBack(s, BPF_STMT(BPF_LD_W_ABS, arch_nr))
        s2 == PushBack(s1, BPF_JUMP(BPF_JMP_JEQ_K, AUDIT_ARCH_AARCH64, 2, 0))
        s3 == PushBack(s2, BPF_JUMP(BPF_JMP_JEQ_K, AUDIT_ARCH_ARM, 1, 1))
        s4 == Trap(s3)
    IN  [f |-> s4, offset |-> Size(s4) - 2]
\* the gate returning the index of its Trap as the patch point
GateReturningTrapIndex(s) ==
    LET s1 == PushBack(s, BPF_STMT(BPF_LD_W_ABS, arch_nr))
        s2 == PushBack(s1, BPF_JUMP(BPF_JMP_JEQ_K, AUDIT_ARCH_AARCH64, 2, 0))
        s3 == PushBack(s2, BPF_JUMP(BPF_JMP_JEQ_K, AUDIT_ARCH_ARM, 1, 0))
        s4 == Trap(s3)
    IN  [f |-> s4, offset |-> Size(s4) - 1]
\* returns [f, offset]: the filter after the call and f.size() - 2
ValidateArchitectureAndJumpIfNeeded(s) ==
    LET s1 == PushBack(s, BPF_STMT(BPF_LD_W_ABS, arch_nr))
        s2 == PushBack(s1, BPF_JUMP(BPF_JMP_JEQ_K, AUDIT_ARCH_AARCH64, 2, 0))
        s3 == PushBack(s2, BPF_JUMP(BPF_JMP_JEQ_K, AUDIT_ARCH_ARM, 1, 0))
        s4 == Trap(s3)
    IN  [f |-> s4, offset |-> Size(s4) - 2]

\* (unsigned short) f.size()
CastU16(x) == x % U16

\* int -> bool conversion of a return value
IntToBool(x) == x # 0

-----------------------------------------------------------------------------
(* The policy blocks of seccomp_policy.h. They are data produced outside   *)
(* this file; set_seccomp_filter copies them without looking at them, so   *)
(* every sequence of instructions below is a possible input, whether or    *)
(* not its branches stay inside the block.                                 *)

\* a branch that continues with the next instruction whatever the syscall
Dummy == BPF_JUMP(BPF_JMP_JEQ_K, 0, 0, 0)

Pad(n) == PushRun(<<>>, Dummy, n)

\* syscall numbers an evaluation is run with
Nrs == 5..MaxNr

\* the instructions a block's decision part is made of: return Allow; on
\* syscall 5 continue, otherwise skip one; from syscall 7 upwards skip one
BodyInstr ==
    { BPF_STMT(BPF_RET_K, SECCOMP_RET_ALLOW),
      BPF_JUMP(BPF_JMP_JEQ_K, 5, 0, 1),
      BPF_JUMP(BPF_JMP_JGE_K, 7, 1, 0) }

Bodies(n) == UNION { [1..k -> BodyInstr] : k \in 0..n }

\* block lengths 0..MaxBody and MaxPad64 .. MaxPad64+MaxBody around the
\* limit of the jump, and the 300 instructions of the documented scenario
Pads64 == {0, MaxPad64, 300}

Pads32 == {0, MaxPad32}

PadsWide == (MaxPadWide - 3)..MaxPadWide

Blocks64 == { PushAll(Pad(p), FromSeq(b)) : p \in Pads64, b \in Bodies(MaxBody) }

Blocks32 == { PushAll(Pad(p), FromSeq(b)) : p \in Pads32, b \in Bodies(MaxBody) }

Blocks64Wide == { <<>>, Pad(MaxPad64 + 1) }

Blocks32Wide == { PushAll(Pad(p), FromSeq(b)) : p \in PadsWide, b \in Bodies(MaxBody) }

-----------------------------------------------------------------------------
(* Initial states: Seccomp_setPolicy is about to be called.                *)

InitLocals ==
    /\ f = <<>>
    /\ offset_to_32bit_filter = 0
    /\ pc = "entry"
    /\ ret = FALSE
    /\ prog = [len |-> 0]
    /\ installed = FALSE
    /\ proc = "running"
    /\ install_calls = 0
    /\ resolve_calls = 0
    /\ resolve_rc = 0
    /\ size_at_resolve = 0

Init ==
    /\ gated \in BOOLEAN
    /\ arm64_filter \in (IF gated THEN Blocks64 ELSE {<<>>})
    /\ arm_filter \in (IF gated THEN Blocks32 ELSE {<<>>})
    /\ InitLocals

InitWide ==
    /\ gated \in BOOLEAN
    /\ arm64_filter \in (IF gated THEN Blocks64Wide ELSE {<<>>})
    /\ arm_filter \in (IF gated THEN Blocks32Wide ELSE {<<>>})
    /\ InitLocals

-----------------------------------------------------------------------------
(* Seccomp_setPolicy and set_seccomp_filter, one action per statement.     *)

inputs == <<gated, arm64_filter, arm_filter>>
kernel == <<prog, installed, install_calls>>
patch == <<resolve_calls, resolve_rc, size_at_resolve>>

\* the #else variant treating the missing filter as a failure
SetPolicyNoopExiting ==
    /\ pc = "entry" /\ ~gated
    /\ pc' = "done"
    /\ proc' = "exited"
    /\ UNCHANGED <<inputs, f, offset_to_32bit_filter, ret, kernel, patch>>
\* the #else variant: an empty body
SetPolicyNoop ==
    /\ pc = "entry" /\ ~gated
    /\ pc' = "done"
    /\ proc' = "returned"
    /\ UNCHANGED <<inputs, f, offset_to_32bit_filter, ret, kernel, patch>>

\* auto offset_to_32bit_filter = ValidateArchitectureAndJumpIfNeeded(f);
EmitGate ==
    /\ pc = "entry" /\ gated
    /\ LET r == ValidateArchitectureAndJumpIfNeeded(f)
       IN  /\ f' = r.f
           /\ offset_to_32bit_filter' = r.offset
    /\ pc' = "examine64"
    /\ UNCHANGED <<inputs, ret, kernel, proc, patch>>

\* ExamineSyscall(f);  (64-bit filter)
Examine64 ==
    /\ pc = "examine64"
    /\ f' = ExamineSyscall(f)
    /\ pc' = "embed64"
    /\ UNCHANGED <<inputs, offset_to_32bit_filter, ret, kernel, proc, patch>>

\* for (i < arm64_filter_size) f.push_back(arm64_filter[i]);
Embed64 ==
    /\ pc = "embed64"
    /\ f' = PushAll(f, arm64_filter)
    /\ pc' = "trap64"
    /\ UNCHANGED <<inputs, offset_to_32bit_filter, ret, kernel, proc, patch>>

Trap64 ==
    /\ pc = "trap64"
    /\ f' = Trap(f)
    /\ pc' = "resolve"
    /\ UNCHANGED <<inputs, offset_to_32bit_filter, ret, kernel, proc, patch>>

\* the statement with the failure ignored: the build goes on to the 32-bit block
ResolveIgnoringFailure ==
    /\ pc = "resolve"
    /\ LET r == SetValidateArchitectureJumpTarget(offset_to_32bit_filter, f)
       IN  /\ f' = r.f
           /\ resolve_calls' = resolve_calls + (IF r.rc = 0 THEN 1 ELSE 0)
           /\ resolve_rc' = r.rc
    /\ size_at_resolve' = Size(f)
    /\ pc' = "examine32"
    /\ UNCHANGED <<inputs, offset_to_32bit_filter, ret, kernel, proc>>
\* the statement run only after the 32-bit block, just before install_filter
ResolveLate ==
    /\ pc \in {"resolve", "install"}
    /\ IF pc = "resolve"
       THEN /\ pc' = "examine32"
            /\ UNCHANGED <<f, ret, patch>>
       ELSE /\ resolve_calls = 0
            /\ LET r == SetValidateArchitectureJumpTarget(offset_to_32bit_filter, f)
               IN  /\ f' = r.f
                   /\ resolve_calls' = resolve_calls + 1
                   /\ resolve_rc' = r.rc
                   /\ size_at_resolve' = Size(f)
                   /\ IF r.rc # 0
                      THEN ret' = IntToBool(-1) /\ pc' = "returned"
                      ELSE pc' = "install" /\ UNCHANGED ret
    /\ UNCHANGED <<inputs, offset_to_32bit_filter, kernel, proc>>
\* if (SetValidateArchitectureJumpTarget(offset_to_32bit_filter, f) != 0)
\*     return -1;                 (the function returns bool)
Resolve ==
    /\ pc = "resolve"
    /\ LET r == SetValidateArchitectureJumpTarget(offset_to_32bit_filter, f)
       IN  /\ f' = r.f
           /\ resolve_calls' = resolve_calls + (IF r.rc = 0 THEN 1 ELSE 0)
           /\ resolve_rc' = r.rc
           /\ IF r.rc # 0
              THEN ret' = IntToBool(-1) /\ pc' = "returned"
              ELSE pc' = "examine32" /\ UNCHANGED ret
    /\ size_at_resolve' = Size(f)
    /\ UNCHANGED <<inputs, offset_to_32bit_filter, kernel, proc>>

\* ExamineSyscall(f);  (32-bit filter)
Examine32 ==
    /\ pc = "examine32"
    /\ f' = ExamineSyscall(f)
    /\ pc' = "embed32"
    /\ UNCHANGED <<inputs, offset_to_32bit_filter, ret, kernel, proc, patch>>

\* the 32-bit embedding loop reading the 64-bit table
Embed32FromArm64 ==
    /\ pc = "embed32"
    /\ f' = PushAll(f, arm64_filter)
    /\ pc' = "trap32"
    /\ UNCHANGED <<inputs, offset_to_32bit_filter, ret, kernel, proc, patch>>
\* for (i < arm_filter_size) f.push_back(arm_filter[i]);
Embed32 ==
    /\ pc = "embed32"
    /\ f' = PushAll(f, arm_filter)
    /\ pc' = "trap32"
    /\ UNCHANGED <<inputs, offset_to_32bit_filter, ret, kernel, proc, patch>>

Trap32 ==
    /\ pc = "trap32"
    /\ f' = Trap(f)
    /\ pc' = "install"
    /\ UNCHANGED <<inputs, offset_to_32bit_filter, ret, kernel, proc, patch>>

\* install_filter trying once more after the kernel's rejection
InstallRetrying ==
    /\ pc = "install"
    /\ \E accepted \in BOOLEAN :
          /\ prog' = [len |-> CastU16(Size(f))]
          /\ install_calls' = install_calls + 1
          /\ installed' = accepted
          /\ ret' = accepted
          /\ pc' = (IF ~accepted /\ install_calls = 0 THEN "install" ELSE "returned")
    /\ UNCHANGED <<inputs, f, offset_to_32bit_filter, proc, patch>>
\* return install_filter(f); the kernel's answer to prctl is its own
Install ==
    /\ pc = "install"
    /\ \E accepted \in BOOLEAN :
          /\ prog' = [len |-> CastU16(Size(f))]
          /\ install_calls' = install_calls + 1
          /\ installed' = accepted
          /\ ret' = accepted
    /\ pc' = "returned"
    /\ UNCHANGED <<inputs, f, offset_to_32bit_filter, proc, patch>>

\* if (!set_seccomp_filter()) exit(1);
CheckResult ==
    /\ pc = "returned"
    /\ proc' = (IF ~ret THEN "exited" ELSE "returned")
    /\ pc' = "done"
    /\ UNCHANGED <<inputs, f, offset_to_32bit_filter, ret, kernel, patch>>

Next ==
    \/ SetPolicyNoop
    \/ EmitGate
    \/ Examine64
    \/ Embed64
    \/ Trap64
    \/ Resolve
    \/ Examine32
    \/ Embed32
    \/ Trap32
    \/ Install
    \/ CheckResult

Spec == Init /\ [][Next]_vars

SpecWide == InitWide /\ [][Next]_vars

-----------------------------------------------------------------------------
(* Evaluation of a filter on one system call: the classic BPF machine      *)
(* restricted to the instructions above. A machine state holds the 0-based *)
(* instruction pointer ip, the accumulator A, the number of instructions   *)
(* executed, whether the syscall number was loaded, and, once a return     *)
(* instruction was executed, its value.                                    *)

SeccompData(arch, nr) == [arch |-> arch, nr |-> nr]

Load(data, k) == IF k = arch_nr THEN data.arch ELSE data.nr

\* tags of neither gated architecture: none, and x86-64's machine number
OtherArchs == {0, 62}

Archs == {AUDIT_ARCH_AARCH64, AUDIT_ARCH_ARM} \cup OtherArchs

\* the values a return instruction of the emitters can hold: Kill, Trap,
\* Trace, Allow, and Error(f, retcode) with SECCOMP_RET_ERRNO + retcode for
\* a retcode of 16 bits
Returns ==
    {SECCOMP_RET_KILL, SECCOMP_RET_TRAP, SECCOMP_RET_TRACE, SECCOMP_RET_ALLOW}
        \cup (SECCOMP_RET_ERRNO .. (SECCOMP_RET_ERRNO + U16 - 1))

IsBranch(ins) == ins.code \in {BPF_JMP_JEQ_K, BPF_JMP_JGE_K}

\* evaluation has stopped: on a return, or with ip outside the program
Halted(p, st) == st.returned \/ st.ip >= Size(p)

\* one instruction
Step(p, data, st) ==
    IF Halted(p, st) THEN st
    ELSE LET ins == At(p, st.ip)
             n == st.steps + 1
         IN  CASE ins.code = BPF_RET_K ->
                    [st EXCEPT !.returned = TRUE, !.value = ins.k, !.steps = n]
               [] ins.code = BPF_LD_W_ABS ->
                    [st EXCEPT !.ip = @ + 1, !.A = Load(data, ins.k), !.steps = n,
                               !.nr_loaded = @ \/ ins.k = syscall_nr]
               [] ins.code = BPF_JMP_JEQ_K ->
                    [st EXCEPT !.ip = @ + 1 + (IF st.A = ins.k THEN ins.jt ELSE ins.jf),
                               !.steps = n]
               [] ins.code = BPF_JMP_JGE_K ->
                    [st EXCEPT !.ip = @ + 1 + (IF st.A >= ins.k THEN ins.jt ELSE ins.jf),
                               !.steps = n]

\* k instructions, or fewer when evaluation stops earlier
RECURSIVE Run(_, _, _, _)
Run(p, data, st, k) ==
    IF Halted(p, st) \/ k <= 0 THEN st
    ELSE IF k = 1 THEN Step(p, data, st)
    ELSE Run(p, data, Run(p, data, st, k \div 2), k - (k \div 2))

\* Evaluation to its end: every instruction moves ip forward, so Size(p)
\* instructions are enough. In the result ip is the index of the return
\* instruction, or the index outside the program that evaluation reached.
Exec(p, data, A, nr_loaded) ==
    Run(p, data,
        [ip |-> 0, A |-> A, steps |-> 0, nr_loaded |-> nr_loaded,
         returned |-> FALSE, value |-> -1],
        Size(p))

\* the whole filter, from index 0 with an empty accumulator
Evaluate(p, arch, nr) == Exec(p, SeccompData(arch, nr), 0, FALSE)

\* the whole filter, stopped after at most k instructions
EvaluateSteps(p, arch, nr, k) ==
    Run(p, SeccompData(arch, nr),
        [ip |-> 0, A |-> 0, steps |-> 0, nr_loaded |-> FALSE,
         returned |-> FALSE, value |-> -1],
        k)

\* a policy block on its own, entered with the syscall number loaded
EvaluateBlock(b, arch, nr) == Exec(b, SeccompData(arch, nr), nr, TRUE)

\* every branch of the block lands inside it or on the instruction after it
WellFormed(b) ==
    \A i \in 0..(Size(b) - 1) :
        IsBranch(At(b, i)) =>
            /\ i + 1 + At(b, i).jt <= Size(b)
            /\ i + 1 + At(b, i).jf <= Size(b)

\* the program has been handed to install_filter
Assembled == pc = "install" \/ install_calls > 0

\* indices of the instructions set_seccomp_filter emits around the blocks
Load64Index == 4
Trap64Index == 5 + Size(arm64_filter)
Load32Index == 6 + Size(arm64_filter)
Trap32Index == 7 + Size(arm64_filter) + Size(arm_filter)

-----------------------------------------------------------------------------
(* Claims.                                                                 *)

\* C1: on a gated architecture Seccomp_setPolicy returns normally to its
\* caller only if the kernel installed the filter; in every other outcome
\* the process has exited.
C1_FailClosedEntryPoint ==
    (gated /\ pc = "done") =>
        /\ proc = "returned" => installed
        /\ ~installed => proc = "exited"

\* C2: set_seccomp_filter returns true if and only if the kernel accepted
\* the filter; it returns false when the jump patcher fails and when
\* install_filter is rejected.
C2_FailureSurfacedToCaller ==
    (gated /\ pc \in {"returned", "done"}) =>
        /\ ret = installed
        /\ resolve_rc # 0 => ret = FALSE

\* C3: in every state of the build every branch of f has jump fields in
\* 0..255; the gate's 64-bit branch lands on the 64-bit block's load; once
\* resolved, the gate's 32-bit branch holds exactly the distance to the
\* instruction after the 64-bit block's Trap; and when that distance is
\* above 255 the patcher fails and stores nothing.
C3_NoTruncatedBranchOffset ==
    /\ \A ins \in Instructions(f) :
          IsBranch(ins) => ins.jt \in 0..(U8 - 1) /\ ins.jf \in 0..(U8 - 1)
    /\ Size(f) > Load64Index =>
          /\ 1 + 1 + At(f, 1).jt = Load64Index
          /\ At(f, Load64Index) = BPF_STMT(BPF_LD_W_ABS, syscall_nr)
    /\ (gated /\ pc \notin {"entry", "examine64", "embed64", "trap64", "resolve"}) =>
          LET distance == Load32Index - offset_to_32bit_filter - 1
          IN  /\ size_at_resolve = Load32Index
              /\ distance <= U8 - 1 =>
                    /\ resolve_rc = 0
                    /\ At(f, offset_to_32bit_filter).jt = distance
                    /\ At(f, offset_to_32bit_filter).jf = 0
              /\ distance > U8 - 1 =>
                    /\ resolve_rc = -1
                    /\ At(f, offset_to_32bit_filter) =
                          BPF_JUMP(BPF_JMP_JEQ_K, AUDIT_ARCH_ARM, 1, 0)
                    /\ Size(f) = size_at_resolve

\* C3 witness: the patcher has refused the first distance that does not fit
\* (256, which would truncate to 0).
C3_Witness ==
    /\ pc = "returned"
    /\ resolve_rc = -1
    /\ JumpLength(offset_to_32bit_filter, f) = U8
    /\ Size(arm64_filter) = U8 - 3

\* C4: for policy blocks whose branches land inside the block or on the
\* instruction right after it, evaluating the assembled program with any
\* architecture tag and any syscall number stops on a return instruction
\* whose index is below the program length.
C4_EveryEvaluationReturns ==
    (Assembled /\ WellFormed(arm64_filter) /\ WellFormed(arm_filter)) =>
        \A arch \in Archs, nr \in Nrs :
            LET r == Evaluate(f, arch, nr)
            IN  /\ r.returned
                /\ r.ip < Size(f)
                /\ At(f, r.ip).code = BPF_RET_K
                /\ r.value \in Returns

\* C4 witness: an installed program whose two blocks each hold a branch to
\* the instruction right after the block, the 64-bit one at the longest
\* length the jump allows, with both final Traps reached.
C4_Witness ==
    /\ pc = "done" /\ installed
    /\ WellFormed(arm64_filter) /\ WellFormed(arm_filter)
    /\ Size(arm64_filter) = U8 - 4
    /\ \E i \in 0..(Size(arm_filter) - 1) :
          IsBranch(At(arm_filter, i)) /\ i + 1 + At(arm_filter, i).jt = Size(arm_filter)
    /\ \E nr \in Nrs : Evaluate(f, AUDIT_ARCH_ARM, nr).ip = Trap32Index
    /\ \E nr \in Nrs : Evaluate(f, AUDIT_ARCH_AARCH64, nr).ip = Trap64Index

\* C5: once the gate is emitted, evaluation with a tag of neither gated
\* architecture returns Trap from index 3 after the four gate instructions,
\* without loading the syscall number.
C5_OtherArchitectureTraps ==
    Size(f) >= 4 =>
        \A arch \in OtherArchs, nr \in Nrs :
            LET r == Evaluate(f, arch, nr)
            IN  /\ r.returned
                /\ r.value = SECCOMP_RET_TRAP
                /\ r.ip = 3
                /\ r.steps = 4
                /\ ~r.nr_loaded

\* C5 witness: an installed program both of whose blocks allow a syscall
\* that is trapped under another tag.
C5_Witness ==
    /\ pc = "done" /\ installed
    /\ \E nr \in Nrs :
          /\ Evaluate(f, AUDIT_ARCH_AARCH64, nr).value = SECCOMP_RET_ALLOW
          /\ Evaluate(f, AUDIT_ARCH_ARM, nr).value = SECCOMP_RET_ALLOW
          /\ \A arch \in OtherArchs : Evaluate(f, arch, nr).value = SECCOMP_RET_TRAP

\* C6: every syscall number that a gated architecture's policy block maps
\* to Allow is allowed by the assembled program under that architecture's
\* tag.
C6_AllowedSyscallsAllowed ==
    Assembled =>
        \A nr \in Nrs :
            /\ EvaluateBlock(arm64_filter, AUDIT_ARCH_AARCH64, nr).value = SECCOMP_RET_ALLOW
                  => Evaluate(f, AUDIT_ARCH_AARCH64, nr).value = SECCOMP_RET_ALLOW
            /\ EvaluateBlock(arm_filter, AUDIT_ARCH_ARM, nr).value = SECCOMP_RET_ALLOW
                  => Evaluate(f, AUDIT_ARCH_ARM, nr).value = SECCOMP_RET_ALLOW

\* C6 witness: the 64-bit block allows syscall 5 only, the 32-bit block
\* allows syscall 5 only behind padding, and the program allows both.
C6_Witness ==
    /\ pc = "done" /\ installed
    /\ arm64_filter = FromSeq(<< BPF_JUMP(BPF_JMP_JEQ_K, 5, 0, 1),
                                 BPF_STMT(BPF_RET_K, SECCOMP_RET_ALLOW) >>)
    /\ Size(arm_filter) > 2
    /\ EvaluateBlock(arm_filter, AUDIT_ARCH_ARM, 5).value = SECCOMP_RET_ALLOW
    /\ EvaluateBlock(arm_filter, AUDIT_ARCH_ARM, 6).value # SECCOMP_RET_ALLOW
    /\ Evaluate(f, AUDIT_ARCH_AARCH64, 5).value = SECCOMP_RET_ALLOW
    /\ Evaluate(f, AUDIT_ARCH_ARM, 5).value = SECCOMP_RET_ALLOW

\* C7: a syscall number on which a gated architecture's policy block runs
\* off its end without returning gets Trap, from the Trap emitted right
\* after that block.
C7_AbsentSyscallsTrap ==
    Assembled =>
        \A nr \in Nrs :
            /\ LET b == EvaluateBlock(arm64_filter, AUDIT_ARCH_AARCH64, nr)
                   r == Evaluate(f, AUDIT_ARCH_AARCH64, nr)
               IN  (~b.returned /\ b.ip = Size(arm64_filter)) =>
                       /\ r.returned /\ r.value = SECCOMP_RET_TRAP
                       /\ r.ip = Trap64Index
            /\ LET b == EvaluateBlock(arm_filter, AUDIT_ARCH_ARM, nr)
                   r == Evaluate(f, AUDIT_ARCH_ARM, nr)
               IN  (~b.returned /\ b.ip = Size(arm_filter)) =>
                       /\ r.returned /\ r.value = SECCOMP_RET_TRAP
                       /\ r.ip = Trap32Index

\* C7 witness: the 64-bit block allows syscall 5 only and syscall 6 is
\* trapped under the 64-bit tag although the 32-bit block allows it; the
\* 32-bit block lets syscall 7 fall through and it is trapped.
C7_Witness ==
    /\ pc = "done" /\ installed
    /\ arm64_filter = FromSeq(<< BPF_JUMP(BPF_JMP_JEQ_K, 5, 0, 1),
                                 BPF_STMT(BPF_RET_K, SECCOMP_RET_ALLOW) >>)
    /\ Evaluate(f, AUDIT_ARCH_AARCH64, 6).value = SECCOMP_RET_TRAP
    /\ Evaluate(f, AUDIT_ARCH_AARCH64, 6).ip = Trap64Index
    /\ Evaluate(f, AUDIT_ARCH_ARM, 6).value = SECCOMP_RET_ALLOW
    /\ ~EvaluateBlock(arm_filter, AUDIT_ARCH_ARM, 7).returned
    /\ Evaluate(f, AUDIT_ARCH_ARM, 7).ip = Trap32Index

\* C8: after SetValidateArchitectureJumpTarget has failed, nothing more is
\* emitted and prctl is never called.
C8_NoInstallAfterEncodingFailure ==
    resolve_rc # 0 =>
        /\ Size(f) = size_at_resolve
        /\ Size(f) = Load32Index
        /\ pc \in {"returned", "done"}
        /\ install_calls = 0
        /\ ~installed
        /\ prog.len = 0

\* C8 witness: the run has ended after an encoding failure.
C8_Witness ==
    /\ pc = "done"
    /\ resolve_rc = -1
    /\ Size(arm64_filter) > U8

\* C9: the instruction count given to the kernel equals the number of
\* instructions of the built program.
C9_WholeProgramSubmitted ==
    install_calls > 0 => prog.len = Size(f)

\* C10: when install_filter is reached the patch point has been written
\* exactly once, at the moment f held the gate, the 64-bit load, the 64-bit
\* block and its Trap and nothing of the 32-bit block, and it still holds
\* the instruction written then.
C10_PatchOrdering ==
    Assembled =>
        /\ resolve_calls = 1
        /\ resolve_rc = 0
        /\ size_at_resolve = Load32Index
        /\ size_at_resolve = Size(f) - Size(arm_filter) - 2
        /\ At(f, Load64Index) = BPF_STMT(BPF_LD_W_ABS, syscall_nr)
        /\ Prefix(Suffix(f, Load64Index + 1), Size(arm64_filter)) = arm64_filter
        /\ At(f, Trap64Index) = BPF_STMT(BPF_RET_K, SECCOMP_RET_TRAP)
        /\ At(f, offset_to_32bit_filter) =
              BPF_JUMP(BPF_JMP_JEQ_K, AUDIT_ARCH_ARM,
                       size_at_resolve - offset_to_32bit_filter - 1, 0)

\* C10 witness: install_filter has been called on a program with two
\* non-empty blocks.
C10_Witness ==
    /\ install_calls = 1
    /\ Size(arm64_filter) > 0
    /\ Size(arm_filter) > 0
    /\ resolve_calls = 1

\* the lifecycle of a run, by position: 0 Building (up to the patch),
\* 1 Patched (the 32-bit block and the call of install_filter), 2 ended
\* (installed, aborted or fatal)
Lifecycle ==
    CASE pc \in {"entry", "examine64", "embed64", "trap64", "resolve"} -> 0
      [] pc \in {"examine32", "embed32", "trap32", "install"} -> 1
      [] pc \in {"returned", "done"} -> 2

\* C11: built for an architecture other than the two gated ones,
\* Seccomp_setPolicy builds no program, never calls prctl, never exits, and
\* returns normally.
C11_UnsupportedArchitectureNoop ==
    ~gated =>
        /\ f = <<>>
        /\ install_calls = 0 /\ ~installed /\ prog.len = 0
        /\ resolve_calls = 0
        /\ proc # "exited"
        /\ pc \in {"entry", "done"}
        /\ pc = "done" => proc = "returned"

\* C11 witness: the empty Seccomp_setPolicy has returned.
C11_Witness ==
    ~gated /\ pc = "done" /\ proc = "returned" /\ f = <<>>

\* C12: prctl is called at most once in a run; after a call nothing is
\* emitted, patched or installed again; and the lifecycle never moves back.
C12_OneShotNoRetry ==
    [][ /\ install_calls' <= 1
        /\ install_calls = 1 =>
              /\ install_calls' = 1
              /\ f' = f
              /\ resolve_calls' = resolve_calls
              /\ prog' = prog
              /\ installed' = installed
        /\ Lifecycle' >= Lifecycle ]_vars

\* C12 witness: the run has ended after the kernel rejected its one attempt.
C12_Witness ==
    /\ pc = "done"
    /\ install_calls = 1
    /\ ~installed
    /\ proc = "exited"

\* C14: after a successful SetValidateArchitectureJumpTarget the gate's
\* 32-bit branch at index p compares with the 32-bit tag, has jump-if-true t
\* with p + 1 + t equal to f.size() at the time of the call, which is the
\* index of the load of the syscall number emitted next, and has
\* jump-if-false 0, so that a non-match continues to the Trap at p + 1.
C14_PatchedBranchLandsOn32BitBlock ==
    resolve_calls >= 1 =>
        LET p == offset_to_32bit_filter
            branch == At(f, p)
        IN  /\ resolve_rc = 0
            /\ branch.code = BPF_JMP_JEQ_K
            /\ branch.k = AUDIT_ARCH_ARM
            /\ p + 1 + branch.jt = size_at_resolve
            /\ branch.jf = 0
            /\ At(f, p + 1) = BPF_STMT(BPF_RET_K, SECCOMP_RET_TRAP)
            /\ pc = "examine32" <=> Size(f) = size_at_resolve
            /\ Size(f) > size_at_resolve =>
                  At(f, size_at_resolve) = BPF_STMT(BPF_LD_W_ABS, syscall_nr)

\* C14 witness: the 32-bit load has just been emitted at the index the
\* branch lands on, with the longest jump that fits.
C14_Witness ==
    /\ pc = "embed32"
    /\ resolve_calls = 1
    /\ At(f, offset_to_32bit_filter).jt = U8 - 1
    /\ Size(f) = size_at_resolve + 1

\* What the gate does with the two gated tags, whatever the blocks hold:
\* under the 32-bit tag the instructions at 0, 1, 2 are executed and the
\* fourth instruction executed is the 32-bit load; under the 64-bit tag the
\* instructions at 0, 1 are executed and the third is the 64-bit load; in
\* both cases the syscall number has not been loaded before. Jump fields are
\* never negative, so ip never decreases afterwards.
GateDispatch(nr) ==
    /\ EvaluateSteps(f, AUDIT_ARCH_ARM, nr, 1).ip = 1
    /\ EvaluateSteps(f, AUDIT_ARCH_ARM, nr, 2).ip = 2
    /\ LET g == EvaluateSteps(f, AUDIT_ARCH_ARM, nr, 3)
       IN  g.steps = 3 /\ g.ip = Load32Index /\ ~g.nr_loaded /\ ~g.returned
    /\ Evaluate(f, AUDIT_ARCH_ARM, nr).ip >= Load32Index
    /\ EvaluateSteps(f, AUDIT_ARCH_AARCH64, nr, 1).ip = 1
    /\ LET g == EvaluateSteps(f, AUDIT_ARCH_AARCH64, nr, 2)
       IN  g.steps = 2 /\ g.ip = Load64Index /\ ~g.nr_loaded /\ ~g.returned

\* under the 64-bit tag evaluation ends on a return no later than the
\* 64-bit block's Trap, so no instruction of the 32-bit region is executed
Stays64(nr) ==
    LET r == Evaluate(f, AUDIT_ARCH_AARCH64, nr)
    IN  r.returned /\ r.ip <= Trap64Index

\* C15 as stated: for every program handed to install_filter and every
\* syscall number, evaluation with the 32-bit tag executes no instruction
\* of the 64-bit region, evaluation with the 64-bit tag executes no
\* instruction of the 32-bit region, and the syscall number is loaded only
\* after the architecture has been matched.
C15_IsolationForEveryProgram ==
    Assembled => \A nr \in Nrs : GateDispatch(nr) /\ Stays64(nr)

\* C15 amended: the 32-bit tag never executes the 64-bit region and the
\* syscall number is loaded only after the match, for every program; the
\* 64-bit tag never executes the 32-bit region when the 64-bit block's
\* branches land inside the block or on the instruction right after it.
C15_ArchitectureIsolation ==
    Assembled =>
        \A nr \in Nrs :
            /\ GateDispatch(nr)
            /\ WellFormed(arm64_filter) => Stays64(nr)

\* C15 witness: an installed program with two non-empty blocks, the 64-bit
\* one with a branch, where syscall 6 ends on the 64-bit Trap under the
\* 64-bit tag and inside the 32-bit region under the 32-bit tag.
C15_Witness ==
    /\ pc = "done" /\ installed
    /\ WellFormed(arm64_filter)
    /\ \E ins \in Instructions(arm64_filter) : IsBranch(ins) /\ ins # Dummy
    /\ Size(arm_filter) > 0
    /\ Evaluate(f, AUDIT_ARCH_AARCH64, 6).ip = Trap64Index
    /\ Evaluate(f, AUDIT_ARCH_ARM, 6).ip > Load32Index

\* the gate as it stands in f once emitted, with the 64-bit branch skipping
\* `skipped` instructions when the tag matches
GateShape(skipped) ==
    (gated /\ pc # "entry") =>
        /\ Size(f) >= 4
        /\ At(f, 0) = BPF_STMT(BPF_LD_W_ABS, arch_nr)
        /\ At(f, 1) = BPF_JUMP(BPF_JMP_JEQ_K, AUDIT_ARCH_AARCH64, skipped, 0)
        /\ At(f, 2).code = BPF_JMP_JEQ_K
        /\ At(f, 2).k = AUDIT_ARCH_ARM
        /\ At(f, 2).jf = 0
        /\ resolve_calls = 0 => At(f, 2).jt = 1
        /\ At(f, 3) = BPF_STMT(BPF_RET_K, SECCOMP_RET_TRAP)
        /\ offset_to_32bit_filter = 2
        /\ pc = "examine64" => Size(f) = 4

\* C16 as stated: the gate is load-architecture, branch-equal on the 64-bit
\* tag, branch-equal on the 32-bit tag, Trap; the 64-bit branch's
\* jump-if-true skips exactly one instruction; the patch point is the index
\* of the 32-bit branch.
C16_GateSkippingOne == GateShape(1)

\* C16 amended: the same gate, with the 64-bit branch's jump-if-true
\* skipping exactly two instructions, the 32-bit branch and the Trap.
C16_GateShape == GateShape(2)

\* C16 witness: the gate has just been emitted, before a non-empty 64-bit
\* block.
C16_Witness ==
    /\ pc = "examine64"
    /\ Size(f) = 4
    /\ offset_to_32bit_filter = 2
    /\ Size(arm64_filter) > 0

\* C17: SetValidateArchitectureJumpTarget computes the distance
\* f.size() - patch index - 1, which in set_seccomp_filter is the 64-bit
\* block's length plus 3, and fails exactly when it is above 255; the build
\* reaches install_filter for every distance up to 255 and never for a
\* longer one, whatever the 32-bit block's length.
C17_ResolveThreshold ==
    (gated /\ Lifecycle > 0) =>
        LET distance == size_at_resolve - offset_to_32bit_filter - 1
        IN  /\ distance = Size(arm64_filter) + 3
            /\ resolve_rc \in {0, -1}
            /\ resolve_rc = 0 <=> distance <= U8 - 1
            /\ resolve_rc = -1 <=> distance > U8 - 1
            /\ resolve_rc = 0 => At(f, offset_to_32bit_filter).jt = distance
            /\ distance > U8 - 1 => install_calls = 0 /\ Lifecycle = 2
            /\ (distance <= U8 - 1 /\ Lifecycle = 2) => install_calls = 1

\* C17 witness: a build at the largest distance that fits, 255, has reached
\* install_filter with a non-empty 32-bit block.
C17_Witness ==
    /\ pc = "returned"
    /\ install_calls = 1
    /\ size_at_resolve - offset_to_32bit_filter - 1 = U8 - 1
    /\ Size(arm_filter) > MaxPad32

\* the program set_seccomp_filter is to build from the two blocks: the
\* gate with its 32-bit branch resolved, the load, the 64-bit block, a
\* Trap, the load, the 32-bit block, a Trap
Layout ==
    LET gate == FromSeq(<< BPF_STMT(BPF_LD_W_ABS, arch_nr),
                           BPF_JUMP(BPF_JMP_JEQ_K, AUDIT_ARCH_AARCH64, 2, 0),
                           BPF_JUMP(BPF_JMP_JEQ_K, AUDIT_ARCH_ARM,
                                    Size(arm64_filter) + 3, 0),
                           BPF_STMT(BPF_RET_K, SECCOMP_RET_TRAP) >>)
        load == FromSeq(<< BPF_STMT(BPF_LD_W_ABS, syscall_nr) >>)
        trap == FromSeq(<< BPF_STMT(BPF_RET_K, SECCOMP_RET_TRAP) >>)
    IN  PushAll(PushAll(PushAll(PushAll(PushAll(PushAll(
            gate, load), arm64_filter), trap), load), arm_filter), trap)

\* C18: every program handed to install_filter is the 4-instruction gate,
\* a load of the syscall number, the 64-bit block verbatim, a Trap, a load
\* of the syscall number, the 32-bit block verbatim, and a final Trap; its
\* length is the two block lengths plus 8 and its last instruction is a
\* Trap.
C18_ProgramLayout ==
    Assembled =>
        /\ f = Layout
        /\ Size(f) = Size(arm64_filter) + Size(arm_filter) + 8
        /\ At(f, Size(f) - 1) = BPF_STMT(BPF_RET_K, SECCOMP_RET_TRAP)
        /\ Prefix(Suffix(f, Load64Index + 1), Size(arm64_filter)) = arm64_filter
        /\ Prefix(Suffix(f, Load32Index + 1), Size(arm_filter)) = arm_filter
        /\ At(f, Load32Index) = BPF_STMT(BPF_LD_W_ABS, syscall_nr)
        /\ Trap32Index = Size(f) - 1

\* C18 witness: install_filter is about to be called on a program built
\* from two different non-empty blocks.
C18_Witness ==
    /\ pc = "install"
    /\ install_calls = 0
    /\ Size(arm64_filter) > 0
    /\ Size(arm_filter) > 0
    /\ arm64_filter # arm_filter
    /\ f = Layout

\* v extended by exactly n instructions at its end
Appended(v, w, n) == Size(w) = Size(v) + n /\ Prefix(w, Size(v)) = v

\* C19: every emitter appends exactly one instruction and leaves the
\* earlier ones as they are (the gate appends four, an embedding loop the
\* block); a successful SetValidateArchitectureJumpTarget changes only the
\* instruction at the patch index, keeping the length; a failing one
\* leaves f unchanged; install_filter and what follows change nothing in f.
C19_BuildStepFrame ==
    [][ /\ \A g \in {Kill(f), Trap(f), Error(f, 1), Trace(f), Allow(f),
                     ExamineSyscall(f)} : Appended(f, g, 1)
        /\ pc \in {"examine64", "trap64", "examine32", "trap32"} =>
              Appended(f, f', 1)
        /\ (pc = "entry" /\ gated) => Appended(f, f', 4)
        /\ (pc = "entry" /\ ~gated) => f' = f
        /\ pc = "embed64" => Appended(f, f', Size(arm64_filter))
        /\ pc = "embed32" => Appended(f, f', Size(arm_filter))
        /\ pc = "resolve" =>
              IF resolve_rc' = 0
              THEN /\ Size(f') = Size(f)
                   /\ Prefix(f', offset_to_32bit_filter)
                         = Prefix(f, offset_to_32bit_filter)
                   /\ Suffix(f', offset_to_32bit_filter + 1)
                         = Suffix(f, offset_to_32bit_filter + 1)
                   /\ At(f', offset_to_32bit_filter) # At(f, offset_to_32bit_filter)
              ELSE f' = f
        /\ pc \in {"install", "returned", "done"} => f' = f ]_vars

\* C19 witness: the kernel has accepted a program whose patch point was
\* rewritten in the middle of the build, ahead of a non-empty 64-bit block.
C19_Witness ==
    /\ pc = "returned"
    /\ installed
    /\ Size(arm64_filter) > 0
    /\ At(f, offset_to_32bit_filter).jt = Size(arm64_filter) + 3
    /\ Size(f) > size_at_resolve

====
